---- MODULE Spec2Model ----
(***************************************************************************)
(* Secure Cell Vault: the row store (cells, cell_keys, cell_permissions,   *)
(* secrets, secret_versions) and the request handlers of                   *)
(* api/v1/endpoints/cells.py and api/v1/endpoints/secrets.py.              *)
(*                                                                         *)
(* A handler that reads rows, computes and then commits is split at its    *)
(* commit: the rows it loaded into its SQLAlchemy session are kept in      *)
(* pending[p] and the commit applies its writes against the store as it is *)
(* then, subject to the unique indexes and foreign keys of the migration.  *)
(* Handlers of different requests interleave between those two points.     *)
(*                                                                         *)
(* Encryption is symbolic: a ciphertext names the key, the salt (cell id), *)
(* the nonce and the data it was made from, and decrypts only under the    *)
(* same key and salt.  SpecCrypto takes the CellEncryption class by        *)
(* itself, byte by byte: encoding, nonce, body, tag and base64.            *)
(*                                                                         *)
(* KeyRotation.rotate_key mints the key with os.urandom(32) and returns    *)
(* the version counter; the handlers use the returned value as the key     *)
(* bytes, and take the master key from a MasterKeyManager injected with    *)
(* Depends().  create_cell_keys and rotate_cell_key_keys are that step as  *)
(* written, and SpecWiring runs the handlers with it.  The other           *)
(* specifications examine the rows and the requests beyond that step:      *)
(* create_cell_commit and rotate_cell_key_commit take the minted bytes as  *)
(* the data key of the new row and an initialized master key.              *)
(***************************************************************************)
EXTENDS Integers, FiniteSets, Sequences, TLC

\* ------------------------------------------------------------------ bounds
NumCells == 2
NumValues == 2
NumDataKeys == 2
NumNonces == 1
MaxKeyVersion == 2
MaxSecretVersion == 2
MaxSecretIds == 2
NumProcs == 2
MaxTime == 1
MaxAudit == 3
MaxLen == 2

CellIds == 1..NumCells
Values == 1..NumValues
DataKeys == 1..NumDataKeys
Nonces == 1..NumNonces
Procs == 1..NumProcs

Users == {"root", "alice"}
SecretKeys == {"k"}
Grants == {"read", "write", "admin"}

\* the master key of the MasterKeyManager, distinct from every data key
MasterKey == 0
\* version argument of get_secret left out (Optional[int] = None)
NoVersion == 0 - 1
\* expires_at of a permission row that is NULL
NoExpiry == 0 - 1
\* cell_id of an audit_logs row that is NULL
NoCell == 0

VARIABLES cells, usedCells, cell_keys, cell_permissions, secrets,
          secret_versions, nextSecretId, pending, result, written,
          audit_logs, now, rotation_schedules, crypto

vars == <<cells, usedCells, cell_keys, cell_permissions, secrets,
          secret_versions, nextSecretId, pending, result, written,
          audit_logs, now, rotation_schedules, crypto>>

store == <<cells, usedCells, cell_keys, cell_permissions, secrets,
           secret_versions, nextSecretId, written, audit_logs, now,
           rotation_schedules, crypto>>

\* ------------------------------------------------------------------ users
is_superuser(u) == u = "root"

\* ------------------------------------------------------------------ crypto
\* str values: a secret's text, or the hex form of key bytes
Text(v) == [kind |-> "text", n |-> v]

Hex(b) == [kind |-> "hex", n |-> b]

FromHex(s) == s.n

NoValue == [kind |-> "none", n |-> 0]

Plaintexts == {Text(v) : v \in Values}

NoCipher == [key |-> 0 - 1, salt |-> 0, data |-> NoValue, nonce |-> 0]

encrypt(key, cell_id, data, nonce) ==
    [key |-> key, salt |-> cell_id, data |-> data, nonce |-> nonce]

DecryptOk(key, cell_id, ct) == ct.key = key /\ ct.salt = cell_id

decrypt(key, cell_id, ct) == ct.data

\* ------------------------------------------------------------------ CellEncryption
\* The class itself, byte by byte.  A byte is a record; the bytes AES-GCM makes
\* name what they were made from (the key, the nonce, the position, the byte
\* encrypted or the body authenticated), so that a tag verifies only for the key,
\* nonce and body it was computed over.
NonceLen == 12
TagLen == 16

Chars == {"a", "eacute"}

RECURSIVE StringsOf(_)
StringsOf(n) ==
    IF n = 0 THEN {<<>>}
    ELSE StringsOf(n - 1) \cup
         {Append(w, ch) : w \in {v \in StringsOf(n - 1) : Len(v) = n - 1}, ch \in Chars}

\* the str values given to encrypt
Strings == StringsOf(MaxLen)

PlainByte(b) == [kind |-> "plain", n |-> b]

\* UTF-8 of one character: one byte for ASCII, two for U+00E9
Utf8Of(ch) ==
    IF ch = "a" THEN <<PlainByte(97)>> ELSE <<PlainByte(195), PlainByte(169)>>

\* str.encode()
RECURSIVE encode(_)
encode(data) ==
    IF data = <<>> THEN <<>> ELSE Utf8Of(Head(data)) \o encode(Tail(data))

\* what a call comes to: the value returned, or the exception raised
Returns(value) == [exception |-> "none", value |-> value]

Raises(exception) == [exception |-> exception, value |-> <<>>]

\* bytes.decode('utf-8')
RECURSIVE decode(_)
decode(bytes) ==
    IF bytes = <<>> THEN Returns(<<>>)
    ELSE IF bytes[1] = PlainByte(97)
    THEN LET rest == decode(Tail(bytes)) IN
         IF rest.exception # "none" THEN rest ELSE Returns(<<"a">> \o rest.value)
    ELSE IF Len(bytes) >= 2 /\ bytes[1] = PlainByte(195) /\ bytes[2] = PlainByte(169)
    THEN LET rest == decode(Tail(Tail(bytes))) IN
         IF rest.exception # "none" THEN rest ELSE Returns(<<"eacute">> \o rest.value)
    ELSE Raises("UnicodeDecodeError")

Min(a, b) == IF a <= b THEN a ELSE b

\* b64encode: the bytes in groups of three, the last group padded
RECURSIVE b64encode(_)
b64encode(bytes) ==
    IF bytes = <<>> THEN <<>>
    ELSE LET k == Min(3, Len(bytes)) IN
         <<[group |-> SubSeq(bytes, 1, k), pad |-> 3 - k]>>
         \o b64encode(SubSeq(bytes, k + 1, Len(bytes)))

\* b64decode: the bytes of the groups, the padding dropped
RECURSIVE b64decode(_)
b64decode(text) ==
    IF text = <<>> THEN <<>>
    ELSE SubSeq(text[1].group, 1, 3 - text[1].pad) \o b64decode(Tail(text))

\* os.urandom(k): the k bytes of the draw n
urandom(k, n) == [i \in 1..k |-> [kind |-> "random", draw |-> n, i |-> i]]

kdf_derive_unsalted(master_key, salt) == [ikm |-> master_key, salt |-> 0]

\* PBKDF2HMAC(SHA256, length 32, salt, 100000).derive(master_key)
kdf_derive(master_key, salt) == [ikm |-> master_key, salt |-> salt]

\* CellEncryption.__init__ and _init_encryption; the salt is cell_id.encode()
CellEncryption(cell_id, master_key) ==
    [cell_id |-> cell_id, master_key |-> master_key,
     cell_key |-> kdf_derive(master_key, cell_id)]

\* the 16-byte tag of AES-GCM over the nonce and the body (no associated data)
AuthTag(key, nonce, body) ==
    [j \in 1..TagLen |->
        [kind |-> "tag", key |-> key, nonce |-> nonce, body |-> body, j |-> j]]

\* AESGCM.encrypt(nonce, data, None): the body and the tag
aesgcm_encrypt(key, nonce, data) ==
    LET body == [i \in 1..Len(data) |->
                    [kind |-> "body", key |-> key, nonce |-> nonce, i |-> i,
                     p |-> data[i]]]
    IN body \o AuthTag(key, nonce, body)

\* a body byte under the key stream of (key, nonce) at position i
StreamByte(key, nonce, i, b) ==
    IF b.kind = "body" /\ b.key = key /\ b.nonce = nonce /\ b.i = i
    THEN b.p ELSE [kind |-> "garbage"]

aesgcm_decrypt_unauthenticated(key, nonce, ct) ==
    IF Len(ct) < TagLen THEN Raises("InvalidTag")
    ELSE LET body == SubSeq(ct, 1, Len(ct) - TagLen) IN
         Returns([i \in 1..Len(body) |-> StreamByte(key, nonce, i, body[i])])

\* AESGCM.decrypt(nonce, ct, None)
aesgcm_decrypt(key, nonce, ct) ==
    IF Len(ct) < TagLen THEN Raises("InvalidTag")
    ELSE LET body == SubSeq(ct, 1, Len(ct) - TagLen)
             tag == SubSeq(ct, Len(ct) - TagLen + 1, Len(ct))
         IN IF tag # AuthTag(key, nonce, body) THEN Raises("InvalidTag")
            ELSE Returns([i \in 1..Len(body) |-> StreamByte(key, nonce, i, body[i])])

\* CellEncryption.encrypt with the nonce of draw n
CellEncryption_encrypt(self, data, n) ==
    LET nonce == urandom(NonceLen, n)
        data_bytes == encode(data)
        ct == aesgcm_encrypt(self.cell_key, nonce, data_bytes)
    IN b64encode(nonce \o ct)

\* CellEncryption.decrypt
CellEncryption_decrypt(self, encrypted_data) ==
    LET decoded == b64decode(encrypted_data)
        nonce == SubSeq(decoded, 1, Min(NonceLen, Len(decoded)))
        ct == SubSeq(decoded, Min(NonceLen, Len(decoded)) + 1, Len(decoded))
        plaintext == aesgcm_decrypt(self.cell_key, nonce, ct)
    IN IF plaintext.exception # "none" THEN plaintext ELSE decode(plaintext.value)

\* ------------------------------------------------------------------ queries
CellRows(c) == {r \in cells : r.id = c}

CellExists(c) == CellRows(c) # {}

KeysOf(c) == {r \in cell_keys : r.cell_id = c}

ActiveKeys(c) == {r \in KeysOf(c) : r.active}

KeyVersions(c) == {r.version : r \in KeysOf(c)}

SecretRowsAnyCell(c, k) == {s \in secrets : s.key = k}

SecretRows(c, k) == {s \in secrets : s.cell_id = c /\ s.key = k}

VersionsOf(sid) == {v \in secret_versions : v.secret_id = sid}

VersionRows(sid, n) == {v \in VersionsOf(sid) : v.version = n}

\* the query of the "Check permissions" block over the rows of cell_permissions
PermissionRowsIn(rows, c, u, allowed) ==
    {r \in rows : r.cell_id = c /\ r.user_id = u /\ r.permission \in allowed}

PermissionRows(c, u, allowed) == PermissionRowsIn(cell_permissions, c, u, allowed)

\* the "Check permissions" block over the rows of cell_permissions
PermittedIn(rows, u, c, allowed) ==
    is_superuser(u) \/ PermissionRowsIn(rows, c, u, allowed) # {}

PermittedEveryone(u, c, allowed) == TRUE

PermittedAnyRow(u, c, allowed) ==
    is_superuser(u) \/ PermissionRows(c, u, Grants) # {}

\* the "Check permissions" block of the handlers
Permitted(u, c, allowed) == PermittedIn(cell_permissions, u, c, allowed)

AnyGrant == Grants
WriteGrantsWriteOnly == {"write"}
WriteGrantsWithRead == {"read", "write", "admin"}
WriteGrants == {"write", "admin"}
AdminGrants == {"admin"}

\* ------------------------------------------------------------------ requests
Idle == [op |-> "idle", user |-> "root", cell |-> 0, key |-> "k", value |-> NoValue,
         sid |-> 0, ver |-> 0, ekey |-> NoCipher, nk |-> 0]

\* what a request answered: the handler, the caller, the outcome (the HTTPException
\* raised, or the exception that reached the universal handler) and the value
\* returned; audited once the audit middleware has seen the response
Response(op, u, status, value) ==
    [op |-> op, user |-> u, status |-> status, value |-> value, audited |-> FALSE]

\* no CellEncryption under examination
NoCrypto == [stage |-> "none"]

Init ==
    /\ cells = {}
    /\ usedCells = {}
    /\ cell_keys = {}
    /\ cell_permissions = {}
    /\ secrets = {}
    /\ secret_versions = {}
    /\ nextSecretId = 1
    /\ pending = [p \in Procs |-> Idle]
    /\ result = Response("none", "root", "ok", NoValue)
    /\ written = {}
    /\ audit_logs = <<>>
    /\ now = 0
    /\ rotation_schedules = {}
    /\ crypto = NoCrypto

Finish(p, resp) ==
    /\ pending' = [pending EXCEPT ![p] = Idle]
    /\ result' = resp

Reply(resp) ==
    /\ result' = resp
    /\ UNCHANGED pending

\* ------------------------------------------------------------------ schema
KeyVersionFreeNoIndex(c, v) == TRUE

\* unique index ix_cell_keys_cell_id_version
KeyVersionFree(c, v) == v \notin KeyVersions(c)

\* unique index ix_cell_permissions_cell_id_user_id
PermissionFree(c, u) ==
    {r \in cell_permissions : r.cell_id = c /\ r.user_id = u} = {}

SecretKeyFreeNoIndex(c, k) == TRUE

\* unique index ix_secrets_cell_id_key
SecretKeyFree(c, k) == SecretRows(c, k) = {}

SecretVersionFreeNoIndex(sid, v) == TRUE

\* unique index ix_secret_versions_secret_id_version
SecretVersionFree(sid, v) == VersionRows(sid, v) = {}

AuditRowsCascade(rows, c) == SelectSeq(rows, LAMBDA r : r.cell_id # c)

\* ON DELETE SET NULL from cells to audit_logs.cell_id
AuditRowsOfDeletedCell(rows, c) ==
    [i \in 1..Len(rows) |->
        IF rows[i].cell_id = c THEN [rows[i] EXCEPT !.cell_id = NoCell] ELSE rows[i]]

SchedulesKept(rows, c) == rows

\* ON DELETE CASCADE from cells to rotation_schedules.cell_id
SchedulesOfDeletedCell(rows, c) == {r \in rows : r.cell_id # c}

\* ON DELETE CASCADE from cells (to secrets, cell_keys, cell_permissions and
\* rotation_schedules) and from secrets
CascadeCell(c) ==
    LET gone == {s.id : s \in {t \in secrets : t.cell_id = c}} IN
    /\ audit_logs' = AuditRowsOfDeletedCell(audit_logs, c)
    /\ cells' = {r \in cells : r.id # c}
    /\ cell_keys' = {r \in cell_keys : r.cell_id # c}
    /\ cell_permissions' = {r \in cell_permissions : r.cell_id # c}
    /\ secrets' = {s \in secrets : s.cell_id # c}
    /\ secret_versions' = {v \in secret_versions : v.secret_id \notin gone}
    /\ written' = {w \in written : w.secret_id \notin gone}
    /\ rotation_schedules' = SchedulesOfDeletedCell(rotation_schedules, c)

CascadeSecretKeepVersions(sid) ==
    /\ secrets' = {s \in secrets : s.id # sid}
    /\ secret_versions' = secret_versions
    /\ written' = {w \in written : w.secret_id # sid}

\* db.delete(secret) with Secret.history cascade "all, delete-orphan"
CascadeSecret(sid) ==
    /\ secrets' = {s \in secrets : s.id # sid}
    /\ secret_versions' = {v \in secret_versions : v.secret_id # sid}
    /\ written' = {w \in written : w.secret_id # sid}

\* ------------------------------------------------------------------ cells.py
\* create_cell up to its first commit: the cell row alone is stored
create_cell(p, u, d) ==
    /\ pending[p].op = "idle"
    /\ IF ~is_superuser(u)
       THEN /\ Reply(Response("create_cell", u, "Forbidden", NoValue))
            /\ UNCHANGED store
       ELSE \E c \in CellIds \ usedCells :
            /\ cells' = cells \cup {[id |-> c, description |-> d]}
            /\ usedCells' = usedCells \cup {c}
            /\ pending' = [pending EXCEPT ![p] =
                   [Idle EXCEPT !.op = "create_cell", !.user = u, !.cell = c]]
            /\ UNCHANGED <<cell_keys, cell_permissions, secrets, secret_versions,
                           nextSecretId, written, audit_logs, now,
                           rotation_schedules, crypto, result>>

InitialKeyRow(c, dk, n) ==
    [cell_id |-> c, version |-> 1, active |-> TRUE,
     encrypted_key |-> encrypt(MasterKey, c, Hex(dk), n)]

\* lines 53-57: expires_at is not set and stays NULL
CreatorPermission(c, u) ==
    [cell_id |-> c, user_id |-> u, permission |-> "admin", expires_at |-> NoExpiry]

\* create_cell from the initial key to its second commit
create_cell_commit(p, dk, n) ==
    /\ pending[p].op = "create_cell"
    /\ LET c == pending[p].cell
           u == pending[p].user
       IN IF /\ CellExists(c)
             /\ KeyVersionFree(c, 1)
             /\ PermissionFree(c, u)
             THEN /\ cell_keys' = cell_keys \cup {InitialKeyRow(c, dk, n)}
                  /\ cell_permissions' = cell_permissions \cup {CreatorPermission(c, u)}
                  /\ Finish(p, Response("create_cell", u, "ok", NoValue))
             ELSE /\ UNCHANGED <<cell_keys, cell_permissions>>
                  /\ Finish(p, Response("create_cell", u, "IntegrityError", NoValue))
    /\ UNCHANGED <<cells, usedCells, secrets, secret_versions, nextSecretId, written,
                   audit_logs, now, rotation_schedules, crypto>>

update_cell(u, c, d) ==
    /\ IF ~CellExists(c)
       THEN /\ Reply(Response("update_cell", u, "NotFound", NoValue))
            /\ UNCHANGED store
       ELSE IF ~Permitted(u, c, AdminGrants)
       THEN /\ Reply(Response("update_cell", u, "Forbidden", NoValue))
            /\ UNCHANGED store
       ELSE /\ cells' = {IF r.id = c THEN [r EXCEPT !.description = d] ELSE r :
                            r \in cells}
            /\ Reply(Response("update_cell", u, "ok", NoValue))
            /\ UNCHANGED <<usedCells, cell_keys, cell_permissions, secrets,
                           secret_versions, nextSecretId, written, audit_logs, now,
                           rotation_schedules, crypto>>

NewKeyVersionSkip(current) == current + 2

\* line 214: version of the key row a rotation stores (0 stands for no active key)
NewKeyVersion(current) == IF current # 0 THEN current + 1 ELSE 1

\* rotate_cell_key up to the read of the active key
rotate_cell_key(p, u, c) ==
    /\ pending[p].op = "idle"
    /\ UNCHANGED store
    /\ IF ~CellExists(c)
       THEN Reply(Response("rotate_cell_key", u, "NotFound", NoValue))
       ELSE IF ~Permitted(u, c, AdminGrants)
       THEN Reply(Response("rotate_cell_key", u, "Forbidden", NoValue))
       ELSE /\ UNCHANGED result
            /\ \/ /\ ActiveKeys(c) = {}
                  /\ pending' = [pending EXCEPT ![p] =
                         [Idle EXCEPT !.op = "rotate_cell_key", !.user = u,
                                      !.cell = c, !.ver = 0]]
               \/ \E current_key \in ActiveKeys(c) :
                  /\ current_key.version < MaxKeyVersion
                  /\ pending' = [pending EXCEPT ![p] =
                         [Idle EXCEPT !.op = "rotate_cell_key", !.user = u,
                                      !.cell = c, !.ver = current_key.version]]

RotatedKeysKeepActive(keys, c, current, dk, n) ==
    keys \cup {[cell_id |-> c, version |-> NewKeyVersion(current), active |-> TRUE,
                encrypted_key |-> encrypt(MasterKey, c, Hex(dk), n)]}

\* lines 207-218: the rows a rotation writes
RotatedKeys(keys, c, current, dk, n) ==
    {IF r.cell_id = c /\ r.version = current THEN [r EXCEPT !.active = FALSE] ELSE r :
        r \in keys}
    \cup {[cell_id |-> c, version |-> NewKeyVersion(current), active |-> TRUE,
           encrypted_key |-> encrypt(MasterKey, c, Hex(dk), n)]}

RotationAcceptedNoIndex(c, current) == CellExists(c)

SecretsReencrypted(c, dk) ==
    {IF t.cell_id = c THEN [t EXCEPT !.value.key = dk] ELSE t : t \in secrets}

\* lines 199-223: a rotation adds no Secret and no SecretVersion to its session
SecretsAfterRotation(c, dk) == secrets

\* the flush of a rotation is accepted by the store
RotationAccepted(c, current) ==
    /\ CellExists(c)
    /\ KeyVersionFree(c, NewKeyVersion(current))

\* rotate_cell_key from the new key to the commit; under "Update rotation
\* schedule" (lines 220-221) it sets cell.updated_at and leaves rotation_schedules
rotate_cell_key_commit(p, dk, n) ==
    /\ pending[p].op = "rotate_cell_key"
    /\ LET c == pending[p].cell
           u == pending[p].user
           current == pending[p].ver
       IN IF RotationAccepted(c, current)
          THEN /\ cell_keys' = RotatedKeys(cell_keys, c, current, dk, n)
               /\ Finish(p, Response("rotate_cell_key", u, "ok", NoValue))
          ELSE /\ UNCHANGED cell_keys
               /\ Finish(p, Response("rotate_cell_key", u, "IntegrityError", NoValue))
    /\ secrets' = SecretsAfterRotation(pending[p].cell, dk)
    /\ UNCHANGED <<cells, usedCells, cell_permissions, secret_versions,
                   nextSecretId, written, audit_logs, now, rotation_schedules, crypto>>

delete_cell(u, c) ==
    /\ IF ~CellExists(c)
       THEN /\ Reply(Response("delete_cell", u, "NotFound", NoValue))
            /\ UNCHANGED store
       ELSE IF ~Permitted(u, c, AdminGrants)
       THEN /\ Reply(Response("delete_cell", u, "Forbidden", NoValue))
            /\ UNCHANGED store
       ELSE /\ CascadeCell(c)
            /\ Reply(Response("delete_cell", u, "ok", NoValue))
            /\ UNCHANGED <<usedCells, nextSecretId, now, crypto>>

\* ------------------------------------------------------------------ key material
\* KeyRotation.__init__: current_key_version
KeyRotationStart == 1

IntValue(i) == [kind |-> "int", n |-> i]

\* KeyRotation.rotate_key: stores the minted bytes in self.keys under the new
\* version and returns the version
rotate_key(current_key_version, minted) == IntValue(current_key_version + 1)

\* bytes has .hex(), int has not
HasHex(x) == x.kind = "bytes"

\* MasterKeyManager.__init__: _master_key of the instance Depends() builds for the
\* request; startup_event initializes an instance of its own
InjectedMasterKey == NoValue

\* main.py 90-93: _master_key of the instance startup_event builds, after its
\* initialize(): the 32 bytes drawn once at process start
StartupMasterKey == [kind |-> "bytes", n |-> MasterKey]

\* MasterKeyManager.master_key raises RuntimeError while _master_key is None
MasterKeyRaises(_master_key) == _master_key.kind = "none"

\* cells.py 36-41 and 200-205: the outcome of minting and wrapping the cell key
KeyStepOutcome(minted) ==
    IF MasterKeyRaises(InjectedMasterKey) THEN "RuntimeError"
    ELSE IF ~HasHex(rotate_key(KeyRotationStart, minted)) THEN "AttributeError"
    ELSE "ok"

\* the wrapped key the step stores when it raises nothing
WrappedKey(c, minted, n) ==
    encrypt(InjectedMasterKey.n, c, Hex(rotate_key(KeyRotationStart, minted).n), n)

\* create_cell from the initial key to its second commit, as written
create_cell_keys(p, dk, n) ==
    /\ pending[p].op = "create_cell"
    /\ LET c == pending[p].cell
           u == pending[p].user
       IN IF KeyStepOutcome(dk) # "ok"
          THEN /\ UNCHANGED <<cell_keys, cell_permissions>>
               /\ Finish(p, Response("create_cell", u, KeyStepOutcome(dk), NoValue))
          ELSE IF CellExists(c) /\ KeyVersionFree(c, 1) /\ PermissionFree(c, u)
          THEN /\ cell_keys' = cell_keys \cup
                      {[cell_id |-> c, version |-> 1, active |-> TRUE,
                        encrypted_key |-> WrappedKey(c, dk, n)]}
               /\ cell_permissions' = cell_permissions \cup {CreatorPermission(c, u)}
               /\ Finish(p, Response("create_cell", u, "ok", NoValue))
          ELSE /\ UNCHANGED <<cell_keys, cell_permissions>>
               /\ Finish(p, Response("create_cell", u, "IntegrityError", NoValue))
    /\ UNCHANGED <<cells, usedCells, secrets, secret_versions, nextSecretId, written,
                   audit_logs, now, rotation_schedules, crypto>>

\* rotate_cell_key from the new key to the commit, as written
rotate_cell_key_keys(p, dk, n) ==
    /\ pending[p].op = "rotate_cell_key"
    /\ LET c == pending[p].cell
           u == pending[p].user
           current == pending[p].ver
       IN IF KeyStepOutcome(dk) # "ok"
          THEN /\ UNCHANGED cell_keys
               /\ Finish(p, Response("rotate_cell_key", u, KeyStepOutcome(dk), NoValue))
          ELSE IF RotationAccepted(c, current)
          THEN /\ cell_keys' =
                      {IF r.cell_id = c /\ r.version = current
                       THEN [r EXCEPT !.active = FALSE] ELSE r : r \in cell_keys}
                      \cup {[cell_id |-> c, version |-> NewKeyVersion(current),
                              active |-> TRUE, encrypted_key |-> WrappedKey(c, dk, n)]}
               /\ Finish(p, Response("rotate_cell_key", u, "ok", NoValue))
          ELSE /\ UNCHANGED cell_keys
               /\ Finish(p, Response("rotate_cell_key", u, "IntegrityError", NoValue))
    /\ UNCHANGED <<cells, usedCells, cell_permissions, secrets, secret_versions,
                   nextSecretId, written, audit_logs, now, rotation_schedules, crypto>>

\* ------------------------------------------------------------------ secrets.py
SecretCipherPlain(c, ekey, value, n) == value

\* lines 101-103, 177-179, 254-256: after its last commit the handler assigns the
\* plaintext to the value of the Secret it loaded and returns it; the session of
\* the request ends without another commit (spec 4.8, 5: a transaction that is
\* not committed is rolled back), so the rows stay as committed
SessionClosed(rows, sid, value) == rows

\* lines 72-78: unwrap the cell key read from the store, encrypt the value under it
SecretCipher(c, ekey, value, n) ==
    encrypt(FromHex(decrypt(MasterKey, c, ekey)), c, value, n)

\* create_secret up to the read of the active key
create_secret(p, u, c, k, value) ==
    /\ pending[p].op = "idle"
    /\ UNCHANGED store
    /\ IF ~CellExists(c)
       THEN Reply(Response("create_secret", u, "NotFound", NoValue))
       ELSE IF ~Permitted(u, c, WriteGrants)
       THEN Reply(Response("create_secret", u, "Forbidden", NoValue))
       ELSE IF SecretRows(c, k) # {}
       THEN Reply(Response("create_secret", u, "AlreadyExists", NoValue))
       ELSE IF ActiveKeys(c) = {}
       THEN Reply(Response("create_secret", u, "NoActiveKey", NoValue))
       ELSE /\ UNCHANGED result
            /\ nextSecretId <= MaxSecretIds
            /\ \E cell_key \in ActiveKeys(c) :
               pending' = [pending EXCEPT ![p] =
                   [Idle EXCEPT !.op = "create_secret", !.user = u, !.cell = c,
                                !.key = k, !.value = value,
                                !.ekey = cell_key.encrypted_key,
                                !.nk = Cardinality(KeysOf(c))]]

\* create_secret from the decryption of the cell key to the commit
create_secret_commit(p, n) ==
    /\ pending[p].op = "create_secret"
    /\ LET r == pending[p]
           sid == nextSecretId
       IN LET encrypted_value == SecretCipher(r.cell, r.ekey, r.value, n) IN
          IF ~DecryptOk(MasterKey, r.cell, r.ekey)
          THEN /\ UNCHANGED <<secrets, secret_versions, nextSecretId, written>>
               /\ Finish(p, Response("create_secret", r.user, "InvalidTag", NoValue))
          ELSE IF CellExists(r.cell) /\ SecretKeyFree(r.cell, r.key)
          THEN /\ secrets' = SessionClosed(secrets \cup
                      {[id |-> sid, cell_id |-> r.cell, key |-> r.key,
                        value |-> encrypted_value, version |-> 1]}, sid, r.value)
               /\ secret_versions' = secret_versions \cup
                      {[secret_id |-> sid, version |-> 1, value |-> encrypted_value]}
               /\ nextSecretId' = nextSecretId + 1
               /\ written' = written \cup
                      {[secret_id |-> sid, version |-> 1, value |-> r.value,
                        nk |-> r.nk]}
               /\ Finish(p, Response("create_secret", r.user, "ok", r.value))
          ELSE /\ UNCHANGED <<secrets, secret_versions, nextSecretId, written>>
               /\ Finish(p, Response("create_secret", r.user, "IntegrityError", NoValue))
    /\ UNCHANGED <<cells, usedCells, cell_keys, cell_permissions, audit_logs, now,
                   rotation_schedules, crypto>>

\* line 146: "if version:" takes the history row only for a version that is truthy
WantsVersion(version) == version # NoVersion /\ version # 0

StoredCipherCurrent(secret, version) == secret.value

\* lines 145-162: the ciphertext get_secret decrypts
StoredCipher(secret, version) ==
    IF WantsVersion(version)
    THEN (CHOOSE v \in VersionRows(secret.id, version) : TRUE).value
    ELSE secret.value

\* lines 164-173: the data key get_secret decrypts with
ReadKey(c, cell_key) == FromHex(decrypt(MasterKey, c, cell_key.encrypted_key))

get_secret(u, c, k, version) ==
    /\ UNCHANGED <<cells, usedCells, cell_keys, cell_permissions, secret_versions,
                   nextSecretId, written, audit_logs, now, rotation_schedules,
                   crypto, pending>>
    /\ IF ~Permitted(u, c, AnyGrant)
       THEN result' = Response("get_secret", u, "Forbidden", NoValue)
       ELSE IF SecretRows(c, k) = {}
       THEN result' = Response("get_secret", u, "NotFound", NoValue)
       ELSE \E secret \in SecretRows(c, k) :
            IF WantsVersion(version) /\ VersionRows(secret.id, version) = {}
            THEN result' = Response("get_secret", u, "VersionNotFound", NoValue)
            ELSE IF ActiveKeys(c) = {}
            THEN result' = Response("get_secret", u, "AttributeError", NoValue)
            ELSE \E cell_key \in ActiveKeys(c) :
                 LET encrypted_value == StoredCipher(secret, version) IN
                 IF DecryptOk(ReadKey(c, cell_key), c, encrypted_value)
                 THEN result' = Response("get_secret", u, "ok",
                          decrypt(ReadKey(c, cell_key), c, encrypted_value))
                 ELSE result' = Response("get_secret", u, "InvalidTag", NoValue)
    /\ secrets' = IF result'.status = "ok"
                  THEN SessionClosed(secrets, (CHOOSE t \in SecretRows(c, k) : TRUE).id,
                                     result'.value)
                  ELSE secrets

\* update_secret up to the read of the active key
update_secret(p, u, c, k, value) ==
    /\ pending[p].op = "idle"
    /\ UNCHANGED store
    /\ IF ~Permitted(u, c, WriteGrants)
       THEN Reply(Response("update_secret", u, "Forbidden", NoValue))
       ELSE IF SecretRows(c, k) = {}
       THEN Reply(Response("update_secret", u, "NotFound", NoValue))
       ELSE IF ActiveKeys(c) = {}
       THEN Reply(Response("update_secret", u, "AttributeError", NoValue))
       ELSE /\ UNCHANGED result
            /\ \E secret \in SecretRows(c, k) : \E cell_key \in ActiveKeys(c) :
               /\ secret.version < MaxSecretVersion
               /\ pending' = [pending EXCEPT ![p] =
                      [Idle EXCEPT !.op = "update_secret", !.user = u, !.cell = c,
                                   !.key = k, !.value = value, !.sid = secret.id,
                                   !.ver = secret.version,
                                   !.ekey = cell_key.encrypted_key,
                                   !.nk = Cardinality(KeysOf(c))]]

UpdatedSecretsStaleValue(rows, sid, ver, encrypted_value) ==
    {IF s.id = sid THEN [s EXCEPT !.version = ver + 1] ELSE s : s \in rows}

\* lines 237-249: the rows an update writes
UpdatedSecrets(rows, sid, ver, encrypted_value) ==
    {IF s.id = sid THEN [s EXCEPT !.value = encrypted_value, !.version = ver + 1]
     ELSE s : s \in rows}

AppendedVersionsOverwrite(rows, sid, ver, encrypted_value) ==
    {IF v.secret_id = sid THEN [v EXCEPT !.value = encrypted_value] ELSE v : v \in rows}
    \cup {[secret_id |-> sid, version |-> ver + 1, value |-> encrypted_value]}

\* lines 237-243: the SecretVersion an update adds
AppendedVersions(rows, sid, ver, encrypted_value) ==
    rows \cup {[secret_id |-> sid, version |-> ver + 1, value |-> encrypted_value]}

\* update_secret from the decryption of the cell key to the commit
update_secret_commit(p, n) ==
    /\ pending[p].op = "update_secret"
    /\ LET r == pending[p] IN
          LET encrypted_value == SecretCipher(r.cell, r.ekey, r.value, n) IN
          IF ~DecryptOk(MasterKey, r.cell, r.ekey)
          THEN /\ UNCHANGED <<secrets, secret_versions, written>>
               /\ Finish(p, Response("update_secret", r.user, "InvalidTag", NoValue))
          ELSE IF /\ {s \in secrets : s.id = r.sid} # {}
                  /\ SecretVersionFree(r.sid, r.ver + 1)
          THEN /\ secrets' = SessionClosed(
                      UpdatedSecrets(secrets, r.sid, r.ver, encrypted_value),
                      r.sid, r.value)
               /\ secret_versions' =
                      AppendedVersions(secret_versions, r.sid, r.ver, encrypted_value)
               /\ written' = written \cup
                      {[secret_id |-> r.sid, version |-> r.ver + 1, value |-> r.value,
                        nk |-> r.nk]}
               /\ Finish(p, Response("update_secret", r.user, "ok", r.value))
          ELSE /\ UNCHANGED <<secrets, secret_versions, written>>
               /\ Finish(p, Response("update_secret", r.user, "IntegrityError", NoValue))
    /\ UNCHANGED <<cells, usedCells, cell_keys, cell_permissions, nextSecretId,
                   audit_logs, now, rotation_schedules, crypto>>

delete_secret(u, c, k) ==
    /\ UNCHANGED pending
    /\ IF ~Permitted(u, c, WriteGrants)
       THEN /\ result' = Response("delete_secret", u, "Forbidden", NoValue)
            /\ UNCHANGED store
       ELSE IF SecretRows(c, k) = {}
       THEN /\ result' = Response("delete_secret", u, "NotFound", NoValue)
            /\ UNCHANGED store
       ELSE \E secret \in SecretRows(c, k) :
            /\ CascadeSecret(secret.id)
            /\ result' = Response("delete_secret", u, "ok", NoValue)
            /\ UNCHANGED <<cells, usedCells, cell_keys, cell_permissions,
                           nextSecretId, audit_logs, now, rotation_schedules, crypto>>

\* ------------------------------------------------------------------ permissions
\* permission management (spec 4.6): an administrator of the cell sets the
\* grant of a subject and when it expires; at most one row per (cell, subject)
grant_permission(admin, c, u, g, e) ==
    /\ CellExists(c)
    /\ Permitted(admin, c, AdminGrants)
    /\ ~is_superuser(u)
    /\ cell_permissions' =
           {r \in cell_permissions : ~(r.cell_id = c /\ r.user_id = u)}
           \cup {[cell_id |-> c, user_id |-> u, permission |-> g, expires_at |-> e]}
    /\ result' = Response("grant_permission", admin, "ok", NoValue)
    /\ UNCHANGED <<cells, usedCells, cell_keys, secrets, secret_versions,
                   nextSecretId, written, audit_logs, now, rotation_schedules, crypto, pending>>

\* ------------------------------------------------------------------ schedules
\* schedule management (spec 3 RotationSchedule): an administrator of the cell
\* sets its schedule; exactly one row per cell
schedule_rotation(admin, c, interval_days) ==
    /\ CellExists(c)
    /\ Permitted(admin, c, AdminGrants)
    /\ rotation_schedules' =
           {r \in rotation_schedules : r.cell_id # c}
           \cup {[cell_id |-> c, interval_days |-> interval_days,
                  last_rotation |-> now, next_rotation |-> now + interval_days,
                  is_active |-> TRUE]}
    /\ result' = Response("schedule_rotation", admin, "ok", NoValue)
    /\ UNCHANGED <<cells, usedCells, cell_keys, cell_permissions, secrets,
                   secret_versions, nextSecretId, written, audit_logs, now, crypto,
                   pending>>

\* ------------------------------------------------------------------ audit
\* audit action vocabulary (spec 6)
AuditAction(op) ==
    CASE op = "create_cell" -> "cell.create"
      [] op = "update_cell" -> "cell.update"
      [] op = "delete_cell" -> "cell.delete"
      [] op = "rotate_cell_key" -> "cell.key.rotate"
      [] op = "create_secret" -> "secret.create"
      [] op = "get_secret" -> "secret.read"
      [] op = "update_secret" -> "secret.update"
      [] op = "delete_secret" -> "secret.delete"
      [] OTHER -> "none"

\* the records the audit trail gets for a response (spec 4.7, 4.8): one for a
\* success, one auth.denied for a refusal by the authorization check, none for
\* another failure; the cell id is NULL when there is no such cell
AuditRecords(resp, c) ==
    LET cell_id == IF CellExists(c) THEN c ELSE NoCell IN
    IF resp.status = "ok"
    THEN <<[user_id |-> resp.user, action |-> AuditAction(resp.op), cell_id |-> cell_id]>>
    ELSE IF resp.status = "Forbidden"
    THEN <<[user_id |-> resp.user, action |-> "auth.denied", cell_id |-> cell_id]>>
    ELSE <<>>

\* main.py line 45: the audit middleware sees the response of a request to cell c
audit_middleware(c) ==
    /\ AuditAction(result.op) # "none"
    /\ ~result.audited
    /\ Len(audit_logs) < MaxAudit
    /\ audit_logs' = audit_logs \o AuditRecords(result, c)
    /\ result' = [result EXCEPT !.audited = TRUE]
    /\ UNCHANGED <<cells, usedCells, cell_keys, cell_permissions, secrets,
                   secret_versions, nextSecretId, written, now, rotation_schedules,
                   crypto, pending>>

\* ------------------------------------------------------------------ time
\* the clock the DateTime columns are compared with advances
Tick ==
    /\ now < MaxTime
    /\ now' = now + 1
    /\ UNCHANGED <<cells, usedCells, cell_keys, cell_permissions, secrets,
                   secret_versions, nextSecretId, written, audit_logs, pending, result,
                   rotation_schedules, crypto>>

\* ------------------------------------------------------------------ one cipher
\* One CellEncryption under examination: a str is encrypted; the ciphertext may
\* have one byte of its binary form altered, or be handed to the CellEncryption
\* of another cell made from the same input key; it is then decrypted.
Junk == [kind |-> "junk"]

\* decrypt has not been called
NotCalled == [exception |-> "not called", value |-> <<>>]

\* the ciphertext with byte i of its binary form altered
Altered(text, i) == b64encode([b64decode(text) EXCEPT ![i] = Junk])

cell_encrypt(n) ==
    /\ crypto.stage = "new"
    /\ crypto' = [crypto EXCEPT !.stage = "sealed",
                                !.text = CellEncryption_encrypt(crypto.self, crypto.data, n)]
    /\ UNCHANGED <<cells, usedCells, cell_keys, cell_permissions, secrets,
                   secret_versions, nextSecretId, written, audit_logs, now,
                   rotation_schedules, pending, result>>

cell_decrypt ==
    /\ crypto.stage = "sealed"
    /\ crypto' = [crypto EXCEPT !.stage = "opened", !.before = crypto.out,
                                !.out = CellEncryption_decrypt(crypto.self, crypto.text)]
    /\ UNCHANGED <<cells, usedCells, cell_keys, cell_permissions, secrets,
                   secret_versions, nextSecretId, written, audit_logs, now,
                   rotation_schedules, pending, result>>

\* one byte of the nonce, the body or the tag is altered
tamper(i) ==
    /\ crypto.stage \in {"sealed", "opened"}
    /\ ~crypto.tampered
    /\ i \in 1..Len(b64decode(crypto.text))
    /\ crypto' = [crypto EXCEPT !.stage = "sealed", !.tampered = TRUE,
                                !.text = Altered(crypto.text, i)]
    /\ UNCHANGED <<cells, usedCells, cell_keys, cell_permissions, secrets,
                   secret_versions, nextSecretId, written, audit_logs, now,
                   rotation_schedules, pending, result>>

\* the ciphertext goes to the CellEncryption of cell c with the same input key
rebind(c) ==
    /\ crypto.stage \in {"sealed", "opened"}
    /\ crypto.self = crypto.maker
    /\ c # crypto.self.cell_id
    /\ crypto' = [crypto EXCEPT !.stage = "sealed",
                                !.self = CellEncryption(c, crypto.self.master_key)]
    /\ UNCHANGED <<cells, usedCells, cell_keys, cell_permissions, secrets,
                   secret_versions, nextSecretId, written, audit_logs, now,
                   rotation_schedules, pending, result>>

\* ------------------------------------------------------------------ system
Versions == {NoVersion} \cup (0..MaxSecretVersion)

\* expires_at of a grant: NULL or a time of the clock
Expiries == {NoExpiry} \cup (1..MaxTime)

Superusers == {u \in Users : is_superuser(u)}

AllIdle == \A p \in Procs : pending[p].op = "idle"

\* every handler, every caller, requests interleaving at their commits
Next ==
    \/ \E p \in Procs, u \in Users, d \in Values : create_cell(p, u, d)
    \/ \E p \in Procs, dk \in DataKeys, n \in Nonces : create_cell_commit(p, dk, n)
    \/ \E u \in Users, c \in CellIds, d \in Values : update_cell(u, c, d)
    \/ \E p \in Procs, u \in Users, c \in CellIds : rotate_cell_key(p, u, c)
    \/ \E p \in Procs, dk \in DataKeys, n \in Nonces :
          rotate_cell_key_commit(p, dk, n)
    \/ \E u \in Users, c \in CellIds : delete_cell(u, c)
    \/ \E p \in Procs, u \in Users, c \in CellIds, k \in SecretKeys,
          value \in Plaintexts : create_secret(p, u, c, k, value)
    \/ \E p \in Procs, n \in Nonces : create_secret_commit(p, n)
    \/ \E u \in Users, c \in CellIds, k \in SecretKeys, version \in Versions :
          get_secret(u, c, k, version)
    \/ \E p \in Procs, u \in Users, c \in CellIds, k \in SecretKeys,
          value \in Plaintexts : update_secret(p, u, c, k, value)
    \/ \E p \in Procs, n \in Nonces : update_secret_commit(p, n)
    \/ \E u \in Users, c \in CellIds, k \in SecretKeys : delete_secret(u, c, k)
    \/ \E admin \in Users, c \in CellIds, u \in Users, g \in Grants,
          e \in Expiries : grant_permission(admin, c, u, g, e)
    \/ \E c \in CellIds : audit_middleware(c)
    \/ Tick

Spec == Init /\ [][Next]_vars

\* the key lifecycle of the cells: superuser requests that create, rotate and
\* delete cells, interleaving at their commits
NextKeys ==
    \/ \E p \in Procs, u \in Superusers : create_cell(p, u, 1)
    \/ \E p \in Procs, dk \in DataKeys, n \in Nonces : create_cell_commit(p, dk, n)
    \/ \E p \in Procs, u \in Superusers, c \in CellIds : rotate_cell_key(p, u, c)
    \/ \E p \in Procs, dk \in DataKeys, n \in Nonces :
          rotate_cell_key_commit(p, dk, n)
    \/ \E u \in Superusers, c \in CellIds : delete_cell(u, c)

SpecKeys == Init /\ [][NextKeys]_vars

\* the secrets of one cell: superuser requests that write, read and delete the
\* secrets and rotate the key of the first cell, interleaving at their commits
NextSecrets ==
    \/ \E p \in Procs, u \in Superusers : usedCells = {} /\ create_cell(p, u, 1)
    \/ \E p \in Procs, dk \in DataKeys, n \in Nonces : create_cell_commit(p, dk, n)
    \/ \E p \in Procs, u \in Superusers, c \in CellIds : rotate_cell_key(p, u, c)
    \/ \E p \in Procs, dk \in DataKeys, n \in Nonces :
          rotate_cell_key_commit(p, dk, n)
    \/ \E p \in Procs, u \in Superusers, c \in CellIds, k \in SecretKeys,
          value \in Plaintexts : create_secret(p, u, c, k, value)
    \/ \E p \in Procs, n \in Nonces : create_secret_commit(p, n)
    \/ \E u \in Superusers, c \in CellIds, k \in SecretKeys, version \in Versions :
          get_secret(u, c, k, version)
    \/ \E p \in Procs, u \in Superusers, c \in CellIds, k \in SecretKeys,
          value \in Plaintexts : update_secret(p, u, c, k, value)
    \/ \E p \in Procs, n \in Nonces : update_secret_commit(p, n)
    \/ \E u \in Superusers, c \in CellIds, k \in SecretKeys : delete_secret(u, c, k)

SpecSecrets == Init /\ [][NextSecrets]_vars

\* the secrets of one cell, one superuser request at a time
NextReads ==
    \/ \E u \in Superusers : AllIdle /\ usedCells = {} /\ create_cell(1, u, 1)
    \/ \E dk \in DataKeys, n \in Nonces : create_cell_commit(1, dk, n)
    \/ \E u \in Superusers, c \in CellIds : AllIdle /\ rotate_cell_key(1, u, c)
    \/ \E dk \in DataKeys, n \in Nonces : rotate_cell_key_commit(1, dk, n)
    \/ \E u \in Superusers, c \in CellIds, k \in SecretKeys, value \in Plaintexts :
          AllIdle /\ create_secret(1, u, c, k, value)
    \/ \E n \in Nonces : create_secret_commit(1, n)
    \/ \E u \in Superusers, c \in CellIds, k \in SecretKeys, version \in Versions :
          AllIdle /\ get_secret(u, c, k, version)
    \/ \E u \in Superusers, c \in CellIds, k \in SecretKeys, value \in Plaintexts :
          AllIdle /\ update_secret(1, u, c, k, value)
    \/ \E n \in Nonces : update_secret_commit(1, n)
    \/ \E u \in Superusers, c \in CellIds, k \in SecretKeys :
          AllIdle /\ delete_secret(u, c, k)

SpecReads == Init /\ [][NextReads]_vars

\* every handler and every caller, one request at a time, one secret value
NextAuth ==
    \/ \E p \in {1}, u \in Users : AllIdle /\ create_cell(p, u, 1)
    \/ \E p \in {1} : create_cell_commit(p, 1, 1)
    \/ \E u \in Users, c \in CellIds : AllIdle /\ update_cell(u, c, 1)
    \/ \E p \in {1}, u \in Users, c \in CellIds : AllIdle /\ rotate_cell_key(p, u, c)
    \/ \E p \in {1} : rotate_cell_key_commit(p, 1, 1)
    \/ \E u \in Users, c \in CellIds : AllIdle /\ delete_cell(u, c)
    \/ \E p \in {1}, u \in Users, c \in CellIds, k \in SecretKeys :
          AllIdle /\ create_secret(p, u, c, k, Text(1))
    \/ \E p \in {1} : create_secret_commit(p, 1)
    \/ \E u \in Users, c \in CellIds, k \in SecretKeys, version \in {NoVersion, 1} :
          AllIdle /\ get_secret(u, c, k, version)
    \/ \E p \in {1}, u \in Users, c \in CellIds, k \in SecretKeys :
          AllIdle /\ update_secret(p, u, c, k, Text(1))
    \/ \E p \in {1} : update_secret_commit(p, 1)
    \/ \E u \in Users, c \in CellIds, k \in SecretKeys :
          AllIdle /\ delete_secret(u, c, k)
    \/ \E admin \in Users, c \in CellIds, u \in Users, g \in Grants :
          AllIdle /\ grant_permission(admin, c, u, g, NoExpiry)

SpecAuth == Init /\ [][NextAuth]_vars

\* the grants of one cell and their expiry: every caller, one request at a time
NextExpiry ==
    \/ \E u \in Users : AllIdle /\ usedCells = {} /\ create_cell(1, u, 1)
    \/ create_cell_commit(1, 1, 1)
    \/ \E u \in Users, c \in CellIds : AllIdle /\ update_cell(u, c, 2)
    \/ \E u \in Users, c \in CellIds : AllIdle /\ rotate_cell_key(1, u, c)
    \/ rotate_cell_key_commit(1, 1, 1)
    \/ \E u \in Users, c \in CellIds : AllIdle /\ delete_cell(u, c)
    \/ \E u \in Users, c \in CellIds, k \in SecretKeys :
          AllIdle /\ create_secret(1, u, c, k, Text(1))
    \/ create_secret_commit(1, 1)
    \/ \E u \in Users, c \in CellIds, k \in SecretKeys :
          AllIdle /\ get_secret(u, c, k, NoVersion)
    \/ \E u \in Users, c \in CellIds, k \in SecretKeys :
          AllIdle /\ update_secret(1, u, c, k, Text(1))
    \/ update_secret_commit(1, 1)
    \/ \E u \in Users, c \in CellIds, k \in SecretKeys :
          AllIdle /\ delete_secret(u, c, k)
    \/ \E admin \in Users, c \in CellIds, u \in Users, g \in Grants,
          e \in Expiries : AllIdle /\ grant_permission(admin, c, u, g, e)
    \/ AllIdle /\ Tick

SpecExpiry == Init /\ [][NextExpiry]_vars

\* the handlers with the key step as written
NextWiring ==
    \/ \E p \in Procs, u \in Users, d \in Values : create_cell(p, u, d)
    \/ \E p \in Procs, dk \in DataKeys, n \in Nonces : create_cell_keys(p, dk, n)
    \/ \E u \in Users, c \in CellIds, d \in Values : update_cell(u, c, d)
    \/ \E p \in Procs, u \in Users, c \in CellIds : rotate_cell_key(p, u, c)
    \/ \E p \in Procs, dk \in DataKeys, n \in Nonces : rotate_cell_key_keys(p, dk, n)
    \/ \E u \in Users, c \in CellIds : delete_cell(u, c)
    \/ \E p \in Procs, u \in Users, c \in CellIds, k \in SecretKeys,
          value \in Plaintexts : create_secret(p, u, c, k, value)
    \/ \E u \in Users, c \in CellIds, k \in SecretKeys, version \in Versions :
          get_secret(u, c, k, version)

SpecWiring == Init /\ [][NextWiring]_vars

\* the audit middleware has seen the last response
Audited == AuditAction(result.op) = "none" \/ result.audited

\* the cell the requests of a one-cell store address
RequestCells == IF usedCells = {} THEN {NoCell} ELSE usedCells

\* the audit trail of one cell: every caller, one request at a time, each response
\* passing the audit middleware before the next request
NextAudit ==
    \/ \E u \in Users : AllIdle /\ Audited /\ usedCells = {} /\ create_cell(1, u, 1)
    \/ create_cell_commit(1, 1, 1)
    \/ \E u \in Users, c \in RequestCells : AllIdle /\ Audited /\ update_cell(u, c, 2)
    \/ \E u \in Users, c \in RequestCells :
          AllIdle /\ Audited /\ rotate_cell_key(1, u, c)
    \/ rotate_cell_key_commit(1, 1, 1)
    \/ \E u \in Users, c \in RequestCells : AllIdle /\ Audited /\ delete_cell(u, c)
    \/ \E u \in Users, c \in RequestCells, k \in SecretKeys :
          AllIdle /\ Audited /\ create_secret(1, u, c, k, Text(1))
    \/ create_secret_commit(1, 1)
    \/ \E u \in Users, c \in RequestCells, k \in SecretKeys :
          AllIdle /\ Audited /\ get_secret(u, c, k, NoVersion)
    \/ \E u \in Users, c \in RequestCells, k \in SecretKeys :
          AllIdle /\ Audited /\ update_secret(1, u, c, k, Text(1))
    \/ update_secret_commit(1, 1)
    \/ \E u \in Users, c \in RequestCells, k \in SecretKeys :
          AllIdle /\ Audited /\ delete_secret(u, c, k)
    \/ \E c \in RequestCells : AllIdle /\ audit_middleware(c)

SpecAudit == Init /\ [][NextAudit]_vars

\* the rows a cell owns: superuser requests on one cell at a time, its key, its
\* schedule, its secret and the grant of a second user, the requests interleaving
\* at their commits with the deletion of the cell
NextOwned ==
    \/ \E p \in Procs, u \in Superusers : cells = {} /\ create_cell(p, u, 1)
    \/ \E p \in Procs : create_cell_commit(p, 1, 1)
    \/ \E p \in Procs, u \in Superusers, c \in CellIds : rotate_cell_key(p, u, c)
    \/ \E p \in Procs : rotate_cell_key_commit(p, 1, 1)
    \/ \E u \in Superusers, c \in CellIds : delete_cell(u, c)
    \/ \E p \in Procs, u \in Superusers, c \in CellIds, k \in SecretKeys :
          create_secret(p, u, c, k, Text(1))
    \/ \E p \in Procs : create_secret_commit(p, 1)
    \/ \E p \in Procs, u \in Superusers, c \in CellIds, k \in SecretKeys :
          update_secret(p, u, c, k, Text(1))
    \/ \E p \in Procs : update_secret_commit(p, 1)
    \/ \E u \in Superusers, c \in CellIds, k \in SecretKeys : delete_secret(u, c, k)
    \/ \E admin \in Superusers, c \in CellIds, u \in Users, g \in Grants :
          grant_permission(admin, c, u, g, NoExpiry)
    \/ \E admin \in Superusers, c \in CellIds : schedule_rotation(admin, c, 1)

SpecOwned == Init /\ [][NextOwned]_vars

\* interval_days of a schedule
Intervals == 1..2

\* the schedule of one cell over time: superuser requests that create the cell,
\* set its schedule, rotate its key and delete it, one at a time
NextSchedule ==
    \/ \E u \in Superusers, d \in Values :
          AllIdle /\ usedCells = {} /\ create_cell(1, u, d)
    \/ \E dk \in DataKeys, n \in Nonces : create_cell_commit(1, dk, n)
    \/ \E admin \in Superusers, c \in CellIds, interval_days \in Intervals :
          AllIdle /\ schedule_rotation(admin, c, interval_days)
    \/ \E u \in Superusers, c \in CellIds : AllIdle /\ rotate_cell_key(1, u, c)
    \/ \E dk \in DataKeys, n \in Nonces : rotate_cell_key_commit(1, dk, n)
    \/ \E u \in Superusers, c \in CellIds : AllIdle /\ delete_cell(u, c)
    \/ AllIdle /\ Tick

SpecSchedule == Init /\ [][NextSchedule]_vars

\* secret_in.value is a str of any length: Text(v) for v up to PayloadBound are
\* texts within the per-secret maximum of spec 4.4, LargeTexts one beyond it
PayloadBound == NumValues

TooLarge(value) == value.n > PayloadBound

LargeTexts == {Text(PayloadBound + 1)}

\* the secrets of one cell written with texts of every size, one superuser
\* request at a time
NextSize ==
    \/ \E u \in Superusers : AllIdle /\ usedCells = {} /\ create_cell(1, u, 1)
    \/ \E dk \in DataKeys, n \in Nonces : create_cell_commit(1, dk, n)
    \/ \E u \in Superusers, c \in CellIds, k \in SecretKeys,
          value \in Plaintexts \cup LargeTexts :
          AllIdle /\ create_secret(1, u, c, k, value)
    \/ \E n \in Nonces : create_secret_commit(1, n)
    \/ \E u \in Superusers, c \in CellIds, k \in SecretKeys, version \in Versions :
          AllIdle /\ get_secret(u, c, k, version)
    \/ \E u \in Superusers, c \in CellIds, k \in SecretKeys,
          value \in Plaintexts \cup LargeTexts :
          AllIdle /\ update_secret(1, u, c, k, value)
    \/ \E n \in Nonces : update_secret_commit(1, n)
    \/ \E u \in Superusers, c \in CellIds, k \in SecretKeys :
          AllIdle /\ delete_secret(u, c, k)

SpecSize == Init /\ [][NextSize]_vars

\* the input keys of a CellEncryption: the master key and the data keys
InputKeys == {MasterKey} \cup DataKeys

\* a CellEncryption of every input key and cell, with every str to encrypt
InitCrypto ==
    /\ cells = {}
    /\ usedCells = {}
    /\ cell_keys = {}
    /\ cell_permissions = {}
    /\ secrets = {}
    /\ secret_versions = {}
    /\ nextSecretId = 1
    /\ pending = [p \in Procs |-> Idle]
    /\ result = Response("none", "root", "ok", NoValue)
    /\ written = {}
    /\ audit_logs = <<>>
    /\ now = 0
    /\ rotation_schedules = {}
    /\ \E key \in InputKeys, c \in CellIds, data \in Strings :
          crypto = [stage |-> "new", maker |-> CellEncryption(c, key),
                    self |-> CellEncryption(c, key), data |-> data, text |-> <<>>,
                    tampered |-> FALSE, before |-> NotCalled,
                    out |-> NotCalled]

NextCrypto ==
    \/ \E n \in Nonces : cell_encrypt(n)
    \/ cell_decrypt
    \/ \E i \in 1..(NonceLen + 2 * MaxLen + TagLen) : tamper(i)
    \/ \E c \in CellIds : rebind(c)

SpecCrypto == InitCrypto /\ [][NextCrypto]_vars

\* no request addressed to cell c is between its read and its commit
NoRequestOn(c) == \A q \in Procs : pending[q].op = "idle" \/ pending[q].cell # c

\* two cells side by side: superuser requests that create the cells, change,
\* rotate and delete them and write, read and delete their secrets; the requests
\* addressed to one cell come one at a time and interleave at their commits with
\* the requests addressed to the other
NextCells ==
    \/ \E p \in Procs, u \in Superusers : AllIdle /\ create_cell(p, u, 1)
    \/ \E p \in Procs : create_cell_commit(p, 1, 1)
    \/ \E u \in Superusers, c \in CellIds : NoRequestOn(c) /\ update_cell(u, c, 2)
    \/ \E p \in Procs, u \in Superusers, c \in CellIds :
          NoRequestOn(c) /\ rotate_cell_key(p, u, c)
    \/ \E p \in Procs : rotate_cell_key_commit(p, 1, 1)
    \/ \E u \in Superusers, c \in CellIds : NoRequestOn(c) /\ delete_cell(u, c)
    \/ \E p \in Procs, u \in Superusers, c \in CellIds, k \in SecretKeys :
          NoRequestOn(c) /\ create_secret(p, u, c, k, Text(1))
    \/ \E p \in Procs : create_secret_commit(p, 1)
    \/ \E u \in Superusers, c \in CellIds, k \in SecretKeys :
          NoRequestOn(c) /\ get_secret(u, c, k, NoVersion)
    \/ \E p \in Procs, u \in Superusers, c \in CellIds, k \in SecretKeys :
          NoRequestOn(c) /\ update_secret(p, u, c, k, Text(1))
    \/ \E p \in Procs : update_secret_commit(p, 1)
    \/ \E u \in Superusers, c \in CellIds, k \in SecretKeys :
          NoRequestOn(c) /\ delete_secret(u, c, k)

SpecCells == Init /\ [][NextCells]_vars

\* the history of the secrets of one cell at a time: superuser requests that
\* write, read and delete the secrets with every value, and change, rotate and
\* delete the cell, interleaving at their commits
NextHistory ==
    \/ \E p \in Procs, u \in Superusers : cells = {} /\ create_cell(p, u, 1)
    \/ \E p \in Procs : create_cell_commit(p, 1, 1)
    \/ \E u \in Superusers, c \in CellIds : update_cell(u, c, 2)
    \/ \E p \in Procs, u \in Superusers, c \in CellIds : rotate_cell_key(p, u, c)
    \/ \E p \in Procs : rotate_cell_key_commit(p, 1, 1)
    \/ \E u \in Superusers, c \in CellIds : delete_cell(u, c)
    \/ \E p \in Procs, u \in Superusers, c \in CellIds, k \in SecretKeys,
          value \in Plaintexts : create_secret(p, u, c, k, value)
    \/ \E p \in Procs : create_secret_commit(p, 1)
    \/ \E u \in Superusers, c \in CellIds, k \in SecretKeys, version \in Versions :
          get_secret(u, c, k, version)
    \/ \E p \in Procs, u \in Superusers, c \in CellIds, k \in SecretKeys,
          value \in Plaintexts : update_secret(p, u, c, k, value)
    \/ \E p \in Procs : update_secret_commit(p, 1)
    \/ \E u \in Superusers, c \in CellIds, k \in SecretKeys : delete_secret(u, c, k)

SpecHistory == Init /\ [][NextHistory]_vars

\* ------------------------------------------------------------------ claims
MaxOf(S) == IF S = {} THEN 0 ELSE CHOOSE x \in S : \A y \in S : y <= x

MaxKeyVersionOf(c) == MaxOf(KeyVersions(c))

WrittenAt(sid, v) == {w \in written : w.secret_id = sid /\ w.version = v}

\* the step answers or starts a request of u for the handler op
Touches(op, u) ==
    \/ result'.op = op /\ result'.user = u
    \/ \E p \in Procs : pending'[p].op = op /\ pending'[p].user = u

\* C1: get_secret of a version 1..current of a secret returns the plaintext that
\* the write of that version was given, whatever rotations happened since.
C1_ReadReturnsWritten ==
    [][\A u \in Superusers, c \in CellIds, k \in SecretKeys,
          v \in 1..MaxSecretVersion :
          (/\ result'.op = "get_secret"
           /\ get_secret(u, c, k, v)
           /\ \E s \in SecretRows(c, k) : v <= s.version)
          => /\ result'.status = "ok"
             /\ \E s \in SecretRows(c, k) : \E w \in WrittenAt(s.id, v) :
                   result'.value = w.value]_vars

\* C2: in every reachable state each cell has at most one active cell_keys row.
C2_AtMostOneActive ==
    \A c \in CellIds : Cardinality(ActiveKeys(c)) <= 1

C2_Witness ==
    /\ result.op = "rotate_cell_key"
    /\ result.status = "IntegrityError"
    /\ \E c \in CellIds : Cardinality(KeysOf(c)) = 2 /\ Cardinality(ActiveKeys(c)) = 1

\* C3: a successful rotate_cell_key adds exactly one row, at the maximum existing
\* version + 1 and active, deactivates every row that was active, and leaves
\* the new row the only active one.
C3_RotateInstallsNext ==
    [][\A p \in Procs, dk \in DataKeys, n \in Nonces :
          (/\ result'.op = "rotate_cell_key"
           /\ result'.status = "ok"
           /\ rotate_cell_key_commit(p, dk, n))
          => LET c == pending[p].cell
                 before == KeysOf(c)
                 after == {r \in cell_keys' : r.cell_id = c}
             IN \E new \in after :
                   /\ new.version = MaxKeyVersionOf(c) + 1
                   /\ new.active
                   /\ new \notin before
                   /\ after \ {new} = {[r EXCEPT !.active = FALSE] : r \in before}
                   /\ Cardinality(after) = Cardinality(before) + 1
                   /\ {r \in after : r.active} = {new}]_vars

C3_Witness ==
    /\ result.op = "rotate_cell_key"
    /\ result.status = "ok"
    /\ \E c \in CellIds : \E old \in KeysOf(c) : \E new \in KeysOf(c) :
          old.version = 1 /\ ~old.active /\ new.version = 2 /\ new.active

\* C4: the cell_keys versions of each cell are exactly 1..N, each held by one row.
C4_DenseKeyVersions ==
    \A c \in CellIds : KeyVersions(c) = 1..Cardinality(KeysOf(c))

C4_Witness ==
    \E c \in CellIds : KeyVersions(c) = {1, 2} /\ AllIdle

C6_RotateKeepsSecrets ==
    [][\A p \in Procs, u \in Users, c \in CellIds, dk \in DataKeys, n \in Nonces :
          (/\ Touches("rotate_cell_key", u)
           /\ (rotate_cell_key(p, u, c) \/ rotate_cell_key_commit(p, dk, n)))
          => UNCHANGED <<secrets, secret_versions>>]_vars

C6_Witness ==
    /\ result.op = "rotate_cell_key"
    /\ result.status = "ok"
    /\ \E s \in secrets : \E r \in ActiveKeys(s.cell_id) :
          s.value.key # FromHex(r.encrypted_key.data)

\* C7: for every secret, its version is the maximum version of its
\* secret_versions rows and its value is the ciphertext of the row at that version.
C7_CurrentIsLatest ==
    \A s \in secrets :
        /\ VersionsOf(s.id) # {}
        /\ s.version = MaxOf({v.version : v \in VersionsOf(s.id)})
        /\ \A v \in VersionRows(s.id, s.version) : v.value = s.value

C7_Witness ==
    \E s \in secrets :
        /\ s.version = 2
        /\ \E v \in VersionRows(s.id, 1) : v.value # s.value

\* C8: the secret_versions rows of a secret have distinct versions that are
\* exactly 1..current version, one row for each write of the secret.
C8_DenseSecretVersions ==
    \A s \in secrets :
        /\ {v.version : v \in VersionsOf(s.id)} = 1..s.version
        /\ Cardinality(VersionsOf(s.id)) = s.version
        /\ Cardinality({w \in written : w.secret_id = s.id}) = s.version

C8_Witness ==
    /\ result.op = "update_secret"
    /\ result.status = "IntegrityError"
    /\ \E s \in secrets : s.version = 2 /\ Cardinality(VersionsOf(s.id)) = 2

\* no key row was added to the cell since the request that created s read its key
NotRotatedSince(s) ==
    \E w \in WrittenAt(s.id, 1) : w.nk = Cardinality(KeysOf(s.cell_id))

\* C9: while the key of the cell has not been rotated since the secret was
\* created, get_secret of version i returns the value of the i-th write and
\* get_secret without a version returns the value of the last write.
C9_ReadsWithoutRotation ==
    [][\A u \in Superusers, c \in CellIds, k \in SecretKeys :
          \A s \in SecretRows(c, k) :
             (result'.op = "get_secret" /\ NotRotatedSince(s))
             => /\ \A i \in 1..s.version :
                      get_secret(u, c, k, i)
                      => /\ result'.status = "ok"
                         /\ \E w \in WrittenAt(s.id, i) : result'.value = w.value
                /\ get_secret(u, c, k, NoVersion)
                   => /\ result'.status = "ok"
                      /\ \E w \in WrittenAt(s.id, s.version) :
                            result'.value = w.value]_vars

C9_Witness ==
    /\ result.op = "get_secret"
    /\ result.status = "ok"
    /\ \E s \in secrets :
          /\ s.version = 2
          /\ NotRotatedSince(s)
          /\ \E w \in WrittenAt(s.id, 1) : w.value = result.value
          /\ \E w \in WrittenAt(s.id, 2) : w.value # result.value

\* spec 4.6: admin covers read, write, admin; write covers read, write; read covers read
GrantCovers(g, a) ==
    \/ g = "admin"
    \/ g = "write" /\ a \in {"read", "write"}
    \/ g = "read" /\ a = "read"

HoldsGrant(u, c, a) ==
    \E r \in cell_permissions :
        r.cell_id = c /\ r.user_id = u /\ GrantCovers(r.permission, a)

Refused == result'.status \in {"Forbidden", "NotFound"} /\ UNCHANGED <<store, pending>>

Admitted == ~(UNCHANGED pending) \/ result'.status # "Forbidden"

AnswerFor(u, c, a) ==
    IF is_superuser(u) THEN Admitted
    ELSE IF ~HoldsGrant(u, c, a) THEN Refused
    ELSE TRUE

\* C10: a subject who is no superuser and holds no grant covering the action on
\* the cell succeeds in none of the operations (read for get_secret; write for
\* create_secret, update_secret, delete_secret; admin for update_cell,
\* rotate_cell_key, delete_cell); a superuser is never refused.
C10_NoAccessWithoutGrant ==
    [][\A u \in Users, c \in CellIds :
          /\ Touches("get_secret", u)
             => \A k \in SecretKeys, v \in Versions :
                   get_secret(u, c, k, v) => AnswerFor(u, c, "read")
          /\ Touches("create_secret", u)
             => \A p \in Procs, k \in SecretKeys, value \in Plaintexts :
                   create_secret(p, u, c, k, value) => AnswerFor(u, c, "write")
          /\ Touches("update_secret", u)
             => \A p \in Procs, k \in SecretKeys, value \in Plaintexts :
                   update_secret(p, u, c, k, value) => AnswerFor(u, c, "write")
          /\ Touches("delete_secret", u)
             => \A k \in SecretKeys :
                   delete_secret(u, c, k) => AnswerFor(u, c, "write")
          /\ Touches("update_cell", u)
             => \A d \in Values : update_cell(u, c, d) => AnswerFor(u, c, "admin")
          /\ Touches("rotate_cell_key", u)
             => \A p \in Procs : rotate_cell_key(p, u, c) => AnswerFor(u, c, "admin")
          /\ Touches("delete_cell", u)
             => (delete_cell(u, c) => AnswerFor(u, c, "admin"))]_vars

C10_Witness ==
    /\ result.op = "update_secret"
    /\ result.user = "alice"
    /\ result.status = "Forbidden"
    /\ \E s \in secrets : \E r \in cell_permissions :
          r.cell_id = s.cell_id /\ r.user_id = "alice" /\ r.permission = "read"

\* spec 4.6: a row grants while its expires_at is null or in the future
Expired(r) == r.expires_at # NoExpiry /\ r.expires_at <= now

\* the rows of the subject for the cell are all expired, and there is one
OnlyExpiredRows(u, c) ==
    /\ PermissionRows(c, u, Grants) # {}
    /\ \A r \in PermissionRows(c, u, Grants) : Expired(r)

Forbidden == result'.status = "Forbidden" /\ UNCHANGED <<store, pending>>

\* C11: a subject who is no superuser and whose only cell_permissions row for the
\* cell has its expires_at in the past is answered Forbidden by every read, write
\* and admin operation of the cell, and the operation changes nothing.
C11_ExpiredGrantsNothing ==
    [][\A u \in Users, c \in CellIds :
          (~is_superuser(u) /\ OnlyExpiredRows(u, c))
          => /\ Touches("get_secret", u)
                => \A k \in SecretKeys, v \in Versions :
                      get_secret(u, c, k, v) => Forbidden
             /\ Touches("create_secret", u)
                => \A p \in Procs, k \in SecretKeys, value \in Plaintexts :
                      create_secret(p, u, c, k, value) => Forbidden
             /\ Touches("update_secret", u)
                => \A p \in Procs, k \in SecretKeys, value \in Plaintexts :
                      update_secret(p, u, c, k, value) => Forbidden
             /\ Touches("delete_secret", u)
                => \A k \in SecretKeys : delete_secret(u, c, k) => Forbidden
             /\ Touches("update_cell", u)
                => \A d \in Values : update_cell(u, c, d) => Forbidden
             /\ Touches("rotate_cell_key", u)
                => \A p \in Procs : rotate_cell_key(p, u, c) => Forbidden
             /\ Touches("delete_cell", u)
                => (delete_cell(u, c) => Forbidden)]_vars

\* the grant sets the permission filters of the handlers name
HandlerGrants == {AnyGrant, WriteGrants, AdminGrants}

\* the rows with the grant of row r raised to h
Raised(rows, r, h) == (rows \ {r}) \cup {[r EXCEPT !.permission = h]}

\* C12: the access check is monotone in the grants admin >= write >= read: a
\* subject whom a handler's check admits with the grant of its row is admitted by
\* the same check with every greater grant in that row, all else being equal.
C12_MonotoneGrants ==
    \A u \in Users, c \in CellIds, allowed \in HandlerGrants :
        \A r \in PermissionRows(c, u, Grants) : \A h \in Grants :
            (GrantCovers(h, r.permission) /\ Permitted(u, c, allowed))
            => PermittedIn(Raised(cell_permissions, r, h), u, c, allowed)

C12_Witness ==
    /\ result.op = "update_secret"
    /\ result.user = "alice"
    /\ result.status = "ok"
    /\ \E s \in secrets :
          PermissionRows(s.cell_id, "alice", Grants) = PermissionRows(s.cell_id, "alice", {"admin"})

\* the subject holds read on the cell and nothing more
HoldsOnlyRead(u, c) ==
    /\ PermissionRows(c, u, Grants) # {}
    /\ PermissionRows(c, u, Grants) = PermissionRows(c, u, {"read"})

\* C13: update_secret, create_secret and delete_secret of a subject who is no
\* superuser and holds only read on the cell answer Forbidden and leave the
\* secrets, secret_versions and cell_keys rows as they were.
C13_RefusalChangesNothing ==
    [][\A u \in Users, c \in CellIds, k \in SecretKeys :
          (~is_superuser(u) /\ HoldsOnlyRead(u, c))
          => /\ Touches("update_secret", u)
                => \A p \in Procs, value \in Plaintexts :
                      update_secret(p, u, c, k, value)
                      => /\ result'.status = "Forbidden"
                         /\ UNCHANGED <<secrets, secret_versions, cell_keys, pending>>
             /\ Touches("create_secret", u)
                => \A p \in Procs, value \in Plaintexts :
                      create_secret(p, u, c, k, value)
                      => /\ result'.status = "Forbidden"
                         /\ UNCHANGED <<secrets, secret_versions, cell_keys, pending>>
             /\ Touches("delete_secret", u)
                => (delete_secret(u, c, k)
                    => /\ result'.status = "Forbidden"
                       /\ UNCHANGED <<secrets, secret_versions, cell_keys, pending>>)]_vars

C13_Witness ==
    /\ result.op = "delete_secret"
    /\ result.user = "alice"
    /\ result.status = "Forbidden"
    /\ \E s \in secrets : HoldsOnlyRead("alice", s.cell_id) /\ s.version = 2

\* the operations that change stored data
StateChanging ==
    {"create_cell", "update_cell", "delete_cell", "rotate_cell_key",
     "create_secret", "update_secret", "delete_secret"}

\* the step is the audit middleware seeing the response of a request
AuditStep == ~result.audited /\ result'.audited

\* each successful state-changing operation adds one row, no other step adds one
OneRowPerSuccess ==
    IF AuditStep /\ result.op \in StateChanging /\ result.status = "ok"
    THEN Len(audit_logs') = Len(audit_logs) + 1
    ELSE AuditStep \/ Len(audit_logs') = Len(audit_logs)

C16_CreateExistingRefused ==
    [][/\ \A c \in CellIds, k \in SecretKeys :
             Cardinality({s \in secrets' : s.cell_id = c /\ s.key = k}) <= 1
       /\ \A u \in Users, c \in CellIds, k \in SecretKeys :
             (/\ Touches("create_secret", u)
              /\ SecretRows(c, k) # {}
              /\ Permitted(u, c, WriteGrants))
             => \A p \in Procs, value \in Plaintexts :
                   create_secret(p, u, c, k, value)
                   => /\ result'.status = "AlreadyExists"
                      /\ UNCHANGED <<secrets, secret_versions, pending>>
       /\ \A p \in Procs, n \in Nonces :
             (/\ result'.op = "create_secret"
              /\ create_secret_commit(p, n)
              /\ SecretRows(pending[p].cell, pending[p].key) # {})
             => /\ result'.status # "ok"
                /\ UNCHANGED <<secrets, secret_versions>>]_vars

C16_Witness ==
    /\ result.op = "create_secret"
    /\ result.status = "AlreadyExists"
    /\ \E s \in secrets : s.version = 2 /\ Cardinality(VersionsOf(s.id)) = 2

\* C17: a successful delete_secret removes the secret row and all its
\* secret_versions rows in the same step and touches no other secret; in no state
\* is there a version row without its secret or a secret without a version row;
\* delete_secret of a (cell, key) that has no secret, as after a successful
\* delete_secret, answers NotFound and changes nothing.
C17_DeleteIsAtomic ==
    [][/\ \A v \in secret_versions' : \E s \in secrets' : s.id = v.secret_id
       /\ \A s \in secrets' : \E v \in secret_versions' : v.secret_id = s.id
       /\ \A u \in Users, c \in CellIds, k \in SecretKeys :
             (/\ Touches("delete_secret", u)
              /\ Permitted(u, c, WriteGrants)
              /\ delete_secret(u, c, k))
             => IF SecretRows(c, k) = {}
                THEN /\ result'.status = "NotFound"
                     /\ UNCHANGED <<secrets, secret_versions>>
                ELSE /\ result'.status = "ok"
                     /\ secrets' = secrets \ SecretRows(c, k)
                     /\ {s \in secrets' : s.cell_id = c /\ s.key = k} = {}
                     /\ \A s \in SecretRows(c, k) :
                           secret_versions' = secret_versions \ VersionsOf(s.id)]_vars

C17_Witness ==
    /\ result.op = "delete_secret"
    /\ result.status = "NotFound"
    /\ cells # {}
    /\ nextSecretId > 1
    /\ secrets = {}
    /\ secret_versions = {}

\* C18: get_secret with an explicit version (0 and versions above the current one
\* included) that is not in the history of the secret answers VersionNotFound.
C18_MissingVersionRefused ==
    [][\A u \in Superusers, c \in CellIds, k \in SecretKeys,
          v \in 0..MaxSecretVersion :
          (/\ result'.op = "get_secret"
           /\ SecretRows(c, k) # {}
           /\ \A s \in SecretRows(c, k) : VersionRows(s.id, v) = {}
           /\ get_secret(u, c, k, v))
          => result'.status = "VersionNotFound"]_vars

NoActiveKey == result'.status = "NoActiveKey" /\ UNCHANGED <<store, pending>>

\* C19: while a cell has no active cell_keys row, every create_secret,
\* update_secret and get_secret on the cell answers NoActiveKey and changes
\* nothing.
C19_NoActiveKeyRefused ==
    [][\A u \in Superusers, c \in CellIds, k \in SecretKeys :
          (CellExists(c) /\ ActiveKeys(c) = {})
          => /\ Touches("create_secret", u)
                => \A p \in Procs, value \in Plaintexts :
                      create_secret(p, u, c, k, value) => NoActiveKey
             /\ Touches("update_secret", u)
                => \A p \in Procs, value \in Plaintexts :
                      update_secret(p, u, c, k, value) => NoActiveKey
             /\ Touches("get_secret", u)
                => \A v \in Versions : get_secret(u, c, k, v) => NoActiveKey]_vars

\* the data key the wrapped key of a cell_keys row unwraps to under the master key
Unwrapped(row) == FromHex(decrypt(MasterKey, row.cell_id, row.encrypted_key))

\* C20: the key step of a create_cell or rotate_cell_key that the store does not
\* refuse creates a cell_keys row for the cell, and every row so created holds
\* the wrap, under the master key and bound to the cell, of the data key minted
\* in that step: unwrapping it with the master key and the cell returns that key.
C20_WrappedKeyRoundTrip ==
    [][\A p \in Procs, dk \in DataKeys, n \in Nonces :
          (/\ pending[p].op \in {"create_cell", "rotate_cell_key"}
           /\ create_cell_keys(p, dk, n) \/ rotate_cell_key_keys(p, dk, n))
          => /\ \A row \in cell_keys' \ cell_keys :
                   /\ row.cell_id = pending[p].cell
                   /\ DecryptOk(MasterKey, row.cell_id, row.encrypted_key)
                   /\ Unwrapped(row) = dk
             /\ result'.status # "IntegrityError"
                => \E row \in cell_keys' \ cell_keys : row.active]_vars

\* C21: a ciphertext made by the CellEncryption of one cell, decrypted by the
\* CellEncryption of a different cell made from the same input key, fails
\* (InvalidTag) and returns no plaintext.
C21_BoundToCell ==
    (/\ crypto.stage = "opened"
     /\ crypto.self.cell_id # crypto.maker.cell_id
     /\ crypto.self.master_key = crypto.maker.master_key)
    => crypto.out = Raises("InvalidTag")

C21_Witness ==
    /\ crypto.stage = "opened"
    /\ ~crypto.tampered
    /\ crypto.data # <<>>
    /\ crypto.maker.master_key = MasterKey
    /\ crypto.self.cell_id # crypto.maker.cell_id
    /\ crypto.before = Returns(crypto.data)
    /\ crypto.out = Raises("InvalidTag")

\* C22: under one CellEncryption, decrypt(encrypt(p)) = p for every str p, and
\* the decryption of an encrypt output with any one byte of the nonce, the body
\* or the tag altered fails (InvalidTag).
C22_RoundTrip ==
    (crypto.stage = "opened" /\ crypto.self = crypto.maker)
    => IF crypto.tampered
       THEN crypto.out = Raises("InvalidTag")
       ELSE crypto.out = Returns(crypto.data)

C22_Witness ==
    /\ crypto.stage = "opened"
    /\ crypto.self = crypto.maker
    /\ crypto.data = <<"eacute", "a">>
    /\ crypto.tampered
    /\ crypto.before = Returns(crypto.data)
    /\ crypto.out = Raises("InvalidTag")

\* C23: a create_secret or update_secret whose plaintext is larger than the
\* per-secret maximum is rejected with PayloadTooLarge and stores nothing.
C23_LargeRejected ==
    [][\A p \in Procs :
          (/\ pending[p].op \in {"create_secret", "update_secret"}
           /\ TooLarge(pending[p].value)
           /\ pending'[p].op = "idle")
          => /\ result'.status = "PayloadTooLarge"
             /\ UNCHANGED store]_vars

\* the rows of the five owned tables that belong to cell c
OwnedKeys(c) == {r \in cell_keys : r.cell_id = c}

OwnedPermissions(c) == {r \in cell_permissions : r.cell_id = c}

OwnedSchedules(c) == {r \in rotation_schedules : r.cell_id = c}

OwnedSecrets(c) == {r \in secrets : r.cell_id = c}

\* every secret_versions row has its secret: none outlives the cell of its secret
VersionsHaveSecret == \A v \in secret_versions : \E t \in secrets : t.id = v.secret_id

NothingOwned(c) ==
    /\ OwnedKeys(c) = {}
    /\ OwnedPermissions(c) = {}
    /\ OwnedSchedules(c) = {}
    /\ OwnedSecrets(c) = {}

\* the step is a successful delete_cell of c
DeletesCell(c) == CellExists(c) /\ \E u \in Users : delete_cell(u, c)

\* the step is a successful delete_secret of the secret with id sid
DeletesSecret(sid) ==
    \E t \in secrets : /\ t.id = sid
                       /\ \E u \in Users : delete_secret(u, t.cell_id, t.key)
                       /\ result'.status = "ok"

\* C24: after a successful delete_cell(C) no secrets, secret_versions, cell_keys,
\* cell_permissions or rotation_schedules row of C remains (nor appears later),
\* and a row of these tables disappears by no step other than delete_cell of its
\* cell (and delete_secret for a secret and its versions).
C24_OwnedRowsGoWithCell ==
    [][/\ \A c \in CellIds : ~CellExists(c)' => NothingOwned(c)'
       /\ VersionsHaveSecret'
       /\ \A r \in cell_keys :
             (\A x \in cell_keys' : ~(x.cell_id = r.cell_id /\ x.version = r.version))
             => DeletesCell(r.cell_id)
       /\ \A r \in cell_permissions :
             (\A x \in cell_permissions' :
                 ~(x.cell_id = r.cell_id /\ x.user_id = r.user_id))
             => DeletesCell(r.cell_id)
       /\ \A r \in rotation_schedules :
             (\A x \in rotation_schedules' : x.cell_id # r.cell_id)
             => DeletesCell(r.cell_id)
       /\ \A r \in secrets :
             (\A x \in secrets' : x.id # r.id)
             => DeletesCell(r.cell_id) \/ DeletesSecret(r.id)
       /\ \A v \in secret_versions :
             (\A x \in secret_versions' :
                 ~(x.secret_id = v.secret_id /\ x.version = v.version))
             => \E t \in secrets :
                   /\ t.id = v.secret_id
                   /\ DeletesCell(t.cell_id) \/ DeletesSecret(t.id)]_vars

\* a cell has been deleted while an update of its secret was waiting to commit,
\* and no row of it is left
C24_Witness ==
    /\ result.op = "delete_cell"
    /\ result.status = "ok"
    /\ cells = {}
    /\ usedCells # {}
    /\ \E p \in Procs : pending[p].op = "update_secret"
    /\ \A c \in CellIds : NothingOwned(c)
    /\ secret_versions = {}

\* the step answers Forbidden
AnswersForbidden == UNCHANGED pending /\ result'.status = "Forbidden"

\* C25: the outcome of every operation for a subject who is no superuser and is
\* not authorized on the cell is Forbidden, both when the targeted cell or secret
\* exists and when it does not.
C25_NoExistenceOracle ==
    [][\A u \in Users \ Superusers, c \in CellIds :
          /\ (Touches("get_secret", u) /\ ~HoldsGrant(u, c, "read"))
             => \A k \in SecretKeys, v \in Versions :
                   get_secret(u, c, k, v) => AnswersForbidden
          /\ (Touches("create_secret", u) /\ ~HoldsGrant(u, c, "write"))
             => \A p \in Procs, k \in SecretKeys, value \in Plaintexts :
                   create_secret(p, u, c, k, value) => AnswersForbidden
          /\ (Touches("update_secret", u) /\ ~HoldsGrant(u, c, "write"))
             => \A p \in Procs, k \in SecretKeys, value \in Plaintexts :
                   update_secret(p, u, c, k, value) => AnswersForbidden
          /\ (Touches("delete_secret", u) /\ ~HoldsGrant(u, c, "write"))
             => \A k \in SecretKeys : delete_secret(u, c, k) => AnswersForbidden
          /\ (Touches("update_cell", u) /\ ~HoldsGrant(u, c, "admin"))
             => \A d \in Values : update_cell(u, c, d) => AnswersForbidden
          /\ (Touches("rotate_cell_key", u) /\ ~HoldsGrant(u, c, "admin"))
             => \A p \in Procs : rotate_cell_key(p, u, c) => AnswersForbidden
          /\ (Touches("delete_cell", u) /\ ~HoldsGrant(u, c, "admin"))
             => (delete_cell(u, c) => AnswersForbidden)]_vars

\* C26: the master key is generated once at process initialization, and every
\* wrap and unwrap of the handlers uses that one initialized master key.
C26_OneMasterKey ==
    [][\A p \in Procs, dk \in DataKeys, n \in Nonces :
          (/\ pending[p].op \in {"create_cell", "rotate_cell_key"}
           /\ create_cell_keys(p, dk, n) \/ rotate_cell_key_keys(p, dk, n))
          => /\ InjectedMasterKey = StartupMasterKey
             /\ ~MasterKeyRaises(InjectedMasterKey)
             /\ result'.status # "RuntimeError"]_vars

\* C27: a secret write is serialized with the rotation of its cell: a version
\* that a create_secret or update_secret commits is encrypted under the cell key
\* that is the active key when the write commits.
C27_WriteUnderActiveKey ==
    [][\A p \in Procs, n \in Nonces :
          (/\ pending[p].op \in {"create_secret", "update_secret"}
           /\ create_secret_commit(p, n) \/ update_secret_commit(p, n)
           /\ result'.status = "ok")
          => \E cell_key \in ActiveKeys(pending[p].cell) :
                cell_key.encrypted_key = pending[p].ekey]_vars

\* C28: operations on one (cell id, secret key) are serialized.  An update_secret
\* that commits while its secret exists succeeds as if it had run after the
\* writes committed before it: it stores the version after the current one.  A
\* create_secret that commits in its cell succeeds when the key is still free and
\* fails AlreadyExists when another request has created it.
C28_WritesSerialized ==
    [][\A p \in Procs, n \in Nonces :
          /\ (/\ pending[p].op = "update_secret"
              /\ update_secret_commit(p, n))
             => \A t \in secrets :
                   t.id = pending[p].sid
                   => /\ result'.status = "ok"
                      /\ \E x \in secrets' : x.id = t.id /\ x.version = t.version + 1
                      /\ VersionRows(t.id, t.version + 1) = {}
                      /\ \E v \in secret_versions' :
                            v.secret_id = t.id /\ v.version = t.version + 1
          /\ (/\ pending[p].op = "create_secret"
              /\ create_secret_commit(p, n)
              /\ CellExists(pending[p].cell))
             => IF SecretRows(pending[p].cell, pending[p].key) = {}
                THEN result'.status = "ok"
                ELSE result'.status = "AlreadyExists"]_vars

\* C29: a successful rotate_cell_key of a cell that has a rotation schedule sets
\* the schedule's last_rotation to the time of the rotation and its next_rotation
\* to that time plus interval_days; next_rotation = last_rotation + interval_days
\* in every state.
C29_RotationReschedules ==
    [][/\ \A r \in rotation_schedules' :
             r.next_rotation = r.last_rotation + r.interval_days
       /\ \A p \in Procs, dk \in DataKeys, n \in Nonces :
             (/\ pending[p].op = "rotate_cell_key"
              /\ rotate_cell_key_commit(p, dk, n)
              /\ result'.status = "ok")
             => \A r \in rotation_schedules :
                   r.cell_id = pending[p].cell
                   => \E x \in rotation_schedules' :
                         /\ x.cell_id = r.cell_id
                         /\ x.interval_days = r.interval_days
                         /\ x.last_rotation = now
                         /\ x.next_rotation = now + r.interval_days]_vars

\* the ciphertexts CellEncryption.encrypt makes for cell c under a data key
CiphertextsOf(c) ==
    {encrypt(dk, c, data, n) : dk \in DataKeys, data \in Plaintexts, n \in Nonces}

OwnedVersions(c) ==
    {v \in secret_versions : \E t \in OwnedSecrets(c) : t.id = v.secret_id}

\* the rows of cell c in cell_keys, cell_permissions, secrets and secret_versions
RowsOfCell(c) == <<OwnedKeys(c), OwnedPermissions(c), OwnedSecrets(c), OwnedVersions(c)>>

\* the step is a handler addressed to cell c: the request up to its commit, or the
\* commit of a request that was addressed to c
AddressedTo(c) ==
    \/ \E u \in Users, d \in Values : update_cell(u, c, d)
    \/ \E p \in Procs, u \in Users : rotate_cell_key(p, u, c)
    \/ \E u \in Users : delete_cell(u, c)
    \/ \E p \in Procs, u \in Users, k \in SecretKeys, value \in Plaintexts :
          create_secret(p, u, c, k, value) \/ update_secret(p, u, c, k, value)
    \/ \E u \in Users, k \in SecretKeys, version \in Versions :
          get_secret(u, c, k, version)
    \/ \E u \in Users, k \in SecretKeys : delete_secret(u, c, k)
    \/ \E p \in Procs, dk \in DataKeys, n \in Nonces :
          /\ pending[p].cell = c
          /\ \/ create_cell_commit(p, dk, n)
             \/ rotate_cell_key_commit(p, dk, n)
             \/ create_secret_commit(p, n)
             \/ update_secret_commit(p, n)

\* C31: every operation addressed to cell C (the secret handlers, rotate, update
\* and delete of C, and the commits of its requests) leaves the keys, permissions,
\* secrets and secret versions of every other cell unchanged, whatever requests
\* on the other cells are between their read and their commit.
C31_CellsIsolated ==
    [][\A c \in CellIds : \A other \in CellIds \ {c} :
          \/ RowsOfCell(other)' = RowsOfCell(other)
          \/ ~AddressedTo(c)]_vars

\* an update of a secret of one cell has committed while an update of the secret
\* of the same name in the other cell waits for its commit
C31_Witness ==
    /\ result.op = "update_secret"
    /\ result.status = "ok"
    /\ \E c \in CellIds, other \in CellIds :
          /\ c # other
          /\ \E t \in OwnedSecrets(c) : t.version = 2
          /\ \E t \in OwnedSecrets(other) :
                /\ t.version = 1
                /\ \E p \in Procs : /\ pending[p].op = "update_secret"
                                    /\ pending[p].cell = other
                                    /\ pending[p].sid = t.id
          /\ OwnedKeys(other) # {}
          /\ OwnedPermissions(other) # {}
          /\ OwnedVersions(other) # {}

\* cell c has the key row and the admin permission row that create_cell gives it
HasInitialRows(c) ==
    /\ \E r \in cell_keys : r.cell_id = c /\ r.version = 1
    /\ \E r \in cell_permissions : r.cell_id = c /\ r.permission = "admin"

\* C32: create_cell is all-or-nothing: when it succeeds the new cell has exactly
\* one cell_keys row (version 1, active) and the admin permission row of its
\* creator, when it fails no row of the cell is left in cells, and no state has
\* a cell without its initial key and creator permission.
C32_CreateCellAllOrNothing ==
    [][/\ \A r \in cells' : HasInitialRows(r.id)'
       /\ \A p \in Procs, c \in CellIds, u \in Users :
             (/\ pending[p].op = "create_cell"
              /\ pending[p].cell = c
              /\ pending[p].user = u
              /\ pending'[p].op = "idle")
             => IF result'.status = "ok"
                THEN /\ CellExists(c)'
                     /\ Cardinality(KeysOf(c)') = 1
                     /\ \A r \in KeysOf(c)' : r.version = 1 /\ r.active
                     /\ CreatorPermission(c, u) \in cell_permissions'
                ELSE ~CellExists(c)']_vars

\* C33: a secret_versions row is never modified: after every step each row is
\* there as it was, with its ciphertext and its version number, unless the step
\* is the delete_secret of its secret or the delete_cell of its secret's cell,
\* and then no row of that secret and version is left.
C33_VersionsImmutable ==
    [][\A v \in secret_versions :
          \/ v \in secret_versions'
          \/ /\ \A x \in secret_versions' :
                   ~(x.secret_id = v.secret_id /\ x.version = v.version)
             /\ \E t \in secrets :
                   /\ t.id = v.secret_id
                   /\ DeletesCell(t.cell_id) \/ DeletesSecret(t.id)]_vars

\* an update has written a second version with another value after a rotation
\* of the cell key, and the first version is still there
C33_Witness ==
    /\ result.op = "update_secret"
    /\ result.status = "ok"
    /\ \E t \in secrets :
          /\ Cardinality(KeysOf(t.cell_id)) = 2
          /\ \E v1 \in VersionRows(t.id, 1), v2 \in VersionRows(t.id, 2) :
                /\ v1.value.data # v2.value.data
                /\ v2.value = t.value

====
